---------------------------- MODULE Spec2Model ----------------------------
(***************************************************************************)
(* Particle Life (src/particle-life.js): the particle set, the interaction *)
(* rules, the spatial hash, the force law, the integrator and the event    *)
(* handlers that drive them.                                               *)
(*                                                                         *)
(* Numbers.  The program computes in IEEE doubles.  The model computes in  *)
(* decimal fixed point: a length, a velocity or a force of v pixels is the *)
(* integer v * Unit, an interaction strength s is the integer              *)
(* s * MatrixScale, and Math.random() is a fraction k / RandDen.  A        *)
(* quotient is truncated toward zero (Div), which like IEEE rounding is    *)
(* symmetric under negation.  Comparisons of a distance with a radius are  *)
(* exact: for an integer r, floor(sqrt(n)) < r iff sqrt(n) < r.           *)
(***************************************************************************)
EXTENDS Integers, Sequences, FiniteSets, TLC

(***************************************************************************)
(* Bounds of the model.                                                    *)
(***************************************************************************)
\* decimal digits kept of a pixel
UnitDigits == 1
\* decimal digits kept of an interaction strength
MatrixDigits == 3
\* Math.random() is modelled as k / RandDen
RandDen == 1000
\* largest value of the particle-count slider
MaxCount == 2
\* the canvas accepts a click while the set would stay within this size
MaxParticles == 2
\* particles added by one canvas click (30 in the source, line 615)
SpawnCount == 1
\* animation frames run
MaxFrames == 2

Unit == 10 ^ UnitDigits
MatrixScale == 10 ^ MatrixDigits

\* the values Math.random() takes in the model, as numerators over RandDen:
\* for a type, a spawn radius or a matrix cell, ...
RandNums == {20, 943}
\* ... for the x of a new particle, for its y, ...
RandNumsX == {20, 943}
RandNumsY == {20}
\* ... and for a cell of a random matrix
RandNumsCell == {0, 943}

(***************************************************************************)
(* Arithmetic helpers.                                                     *)
(***************************************************************************)
Abs(a) == IF a < 0 THEN -a ELSE a

Min(a, b) == IF a < b THEN a ELSE b

Max(a, b) == IF a > b THEN a ELSE b

\* a / b for b > 0, truncated toward zero
Div(a, b) == IF a < 0 THEN -((-a) \div b) ELSE a \div b

\* Math.floor(a / b) for b > 0
Floor(a, b) == a \div b

\* Math.ceil(a / b) for b > 0
Ceil(a, b) == -((-a) \div b)

RECURSIVE SqrtSearch(_, _, _)
SqrtSearch(n, lo, hi) ==
    IF lo >= hi THEN lo
    ELSE LET mid == (lo + hi + 1) \div 2
         IN  IF mid * mid <= n THEN SqrtSearch(n, mid, hi)
             ELSE SqrtSearch(n, lo, mid - 1)

\* Math.sqrt(n), rounded down to a whole unit
Sqrt(n) == SqrtSearch(n, 0, 46340)

(***************************************************************************)
(* CONFIG (lines 17-44) and PRESETS (lines 50-112).                        *)
(***************************************************************************)
colors == <<"#ff4757", "#2ed573", "#3498ff", "#ffc312", "#a55eea", "#00d2d3">>

numTypes == Len(colors)

Types == 0 .. (numTypes - 1)

\* CONFIG.particleRadius = 2.5, as 25 / 10
particleRadiusNum == 25
particleRadiusDen == 10

\* CONFIG.maxForce = 1
maxForcePx == 1
maxForce == maxForcePx * Unit

\* CONFIG.friction = 0.5, as 5 / 10
frictionNum == 5
frictionDen == 10

\* CONFIG.interactionRadius = 80
interactionRadiusPx == 80
interactionRadius == interactionRadiusPx * Unit

\* cellSize = CONFIG.interactionRadius (line 126)
cellSize == interactionRadius

\* minDist = CONFIG.particleRadius * 4 (line 270)
minDist == (particleRadiusNum * 4 * Unit) \div particleRadiusDen

\* the time step of animate (line 397)
dt == 1

\* the preset tables, in tenths
presetTenths(name) ==
    CASE name = "cells" ->
           << << 8, -2, -2, -2, -2, -2>>,
              <<-2,  8, -2, -2, -2, -2>>,
              <<-2, -2,  8, -2, -2, -2>>,
              <<-2, -2, -2,  8, -2, -2>>,
              <<-2, -2, -2, -2,  8, -2>>,
              <<-2, -2, -2, -2, -2,  8>> >>
      [] name = "swarm" ->
           << << 1, -5,  5,  3,  3,  3>>,
              << 8,  1, -1, -1, -1, -1>>,
              << 3,  6,  1, -1, -1, -1>>,
              << 3,  6, -1,  1, -1, -1>>,
              << 3,  6, -1, -1,  1, -1>>,
              << 3,  6, -1, -1, -1,  1>> >>
      [] name = "predator" ->
           << << 1,  8, -5,  0,  0,  0>>,
              <<-8,  1,  8,  0,  0,  0>>,
              << 8, -8,  1,  0,  0,  0>>,
              << 0,  0,  0,  5, -3, -3>>,
              << 0,  0,  0, -3,  5, -3>>,
              << 0,  0,  0, -3, -3,  5>> >>
      [] name = "symbiosis" ->
           << << 2,  7, -3, -3,  0,  0>>,
              << 7,  2, -3, -3,  0,  0>>,
              <<-3, -3,  2,  7,  0,  0>>,
              <<-3, -3,  7,  2,  0,  0>>,
              << 0,  0,  0,  0,  2,  7>>,
              << 0,  0,  0,  0,  7,  2>> >>
      [] name = "chains" ->
           << << 3,  5, -3, -3, -3, -3>>,
              <<-5,  3,  5, -3, -3, -3>>,
              <<-3, -5,  3,  5, -3, -3>>,
              <<-3, -3, -5,  3,  5, -3>>,
              <<-3, -3, -3, -5,  3,  5>>,
              << 5, -3, -3, -3, -5,  3>> >>

\* the hand-written presets of PRESETS
TableNames == {"cells", "swarm", "predator", "symbiosis", "chains"}

\* a preset's { matrix: [...] } object
presetRules(name) ==
    [matrix |-> [i \in Types |-> [j \in Types |->
                    presetTenths(name)[i + 1][j + 1] * (MatrixScale \div 10)]]]

(***************************************************************************)
(* generateRandomRules (lines 297-310).  Every cell is an independent      *)
(* draw Math.random() * 2 - 1.  The model draws one value for the diagonal *)
(* and one for the other cells.                                            *)
(***************************************************************************)
randomCell(k) == Div(k * 2 * MatrixScale, RandDen) - MatrixScale

generateRandomRules ==
    { [matrix |-> [i \in Types |-> [j \in Types |->
                      IF i = j THEN randomCell(d) ELSE randomCell(o)]]] :
      d \in RandNumsCell, o \in RandNumsCell }


(***************************************************************************)
(* State (lines 17-44, 118-126).                                           *)
(*   particles     the particle array; a particle is [x, y, vx, vy, type]  *)
(*   rules         the active rules object; rules.matrix is << >> when the *)
(*                 installed value has no matrix property                  *)
(*   width, height the canvas size                                         *)
(*   wrap, paused, speed, particleCount     fields of CONFIG               *)
(*   spatialHash   cell key <<cellX, cellY>> -> particle indices.  The     *)
(*                 program rebuilds it at the start of every applyForces   *)
(*                 before reading it; the model empties it when the frame  *)
(*                 ends                                                    *)
(*   matrixInputs  the values of the matrix editor's inputs while the      *)
(*                 modal is open, << >> while it is closed (showMatrix     *)
(*                 rebuilds them before they can be read again)            *)
(*   pc, idx       position of animate: "idle" between callbacks, "forces" *)
(*                 in the loop of applyForces, "update" in the loop of     *)
(*                 animate, and the index of the particle visited next     *)
(*   frame         animate callbacks run so far                            *)
(*   thrown        the exception the last handler ended with, or "none"    *)
(* History, for stating properties only:                                   *)
(*   snap          the particle array as it was when the frame in progress *)
(*                 began, << >> when no frame is in progress               *)
(*   lastTick      what the last animate callback did: "ran" the physics   *)
(*                 step, "skipped" it (paused), or "none" before the first *)
(***************************************************************************)
VARIABLES particles, rules, width, height, wrap, paused, speed,
          particleCount, spatialHash, matrixInputs, pc, idx, frame, thrown,
          snap, lastTick

vars == <<particles, rules, width, height, wrap, paused, speed,
          particleCount, spatialHash, matrixInputs, pc, idx, frame, thrown,
          snap, lastTick>>

\* new Particle(x, y, type) (lines 133-140)
Particle(x, y, type) == [x |-> x, y |-> y, vx |-> 0, vy |-> 0, type |-> type]

(***************************************************************************)
(* Particle.update (lines 142-169).                                        *)
(***************************************************************************)
\* v *= (1 - CONFIG.friction * dt)
damp(v) == Div(v * (frictionDen - frictionNum * dt), frictionDen)

\* the wrap branch on one axis (lines 154-157)
wrapAxis(x, extent) ==
    LET x1 == IF x < 0 THEN x + extent ELSE x
    IN  IF x1 >= extent THEN x1 - extent ELSE x1

\* the bounce branch, were the high end clamped to the extent itself
bounceAxisToExtent(x, v, extent) ==
    IF x < 0 \/ x >= extent
    THEN <<Max(0, Min(extent, x)), Div(-(v * 8), 10)>>
    ELSE <<x, v>>

\* the bounce branch on one axis (lines 160-167): <<position, velocity>>
bounceAxis(x, v, extent) ==
    IF x < 0 \/ x >= extent
    THEN <<Max(0, Min(extent - Unit, x)), Div(-(v * 8), 10)>>
    ELSE <<x, v>>

\* Particle.update, were the friction applied before the position advances
updateDampFirst(p) ==
    LET vx1 == damp(p.vx)
        vy1 == damp(p.vy)
        x1  == p.x + Div(vx1 * dt * speed, Unit)
        y1  == p.y + Div(vy1 * dt * speed, Unit)
    IN  IF wrap
        THEN [p EXCEPT !.x = wrapAxis(x1, width), !.y = wrapAxis(y1, height),
                       !.vx = vx1, !.vy = vy1]
        ELSE LET bx == bounceAxis(x1, vx1, width)
                 by == bounceAxis(y1, vy1, height)
             IN  [p EXCEPT !.x = bx[1], !.y = by[1], !.vx = bx[2], !.vy = by[2]]

\* Particle.update (lines 142-169)
update(p) ==
    LET x1  == p.x + Div(p.vx * dt * speed, Unit)
        y1  == p.y + Div(p.vy * dt * speed, Unit)
        vx1 == damp(p.vx)
        vy1 == damp(p.vy)
    IN  IF wrap
        THEN [p EXCEPT !.x = wrapAxis(x1, width), !.y = wrapAxis(y1, height),
                       !.vx = vx1, !.vy = vy1]
        ELSE LET bx == bounceAxis(x1, vx1, width)
                 by == bounceAxis(y1, vy1, height)
             IN  [p EXCEPT !.x = bx[1], !.y = by[1], !.vx = bx[2], !.vy = by[2]]

(***************************************************************************)
(* Spatial hash (lines 183-228).                                           *)
(***************************************************************************)
\* the cell key of a particle (lines 188-190, 201-202)
cellOf(p) == <<Floor(p.x, cellSize), Floor(p.y, cellSize)>>

Indices(ps) == 1 .. Len(ps)

RECURSIVE indicesIn(_, _, _)
\* the indices i..Len(ps) whose particle lies in cell key, in push order
indicesIn(ps, key, i) ==
    IF i > Len(ps) THEN << >>
    ELSE (IF cellOf(ps[i]) = key THEN <<i>> ELSE << >>) \o indicesIn(ps, key, i + 1)

buildSpatialHash(ps) ==
    [key \in {cellOf(ps[i]) : i \in Indices(ps)} |-> indicesIn(ps, key, 1)]

\* the folding of one cell coordinate under wrap (lines 214-217)
foldCell(n, maxCell) ==
    LET n1 == IF n < 0 THEN n + maxCell ELSE n
    IN  IF n1 >= maxCell THEN n1 - maxCell ELSE n1

\* the 3x3 offsets in the order of the two loops (lines 205-206)
cellOffsets == << <<-1, -1>>, <<-1, 0>>, <<-1, 1>>,
                  << 0, -1>>, << 0, 0>>, << 0, 1>>,
                  << 1, -1>>, << 1, 0>>, << 1, 1>> >>

\* the key looked up for one offset (lines 207-220)
neighborKey(p, off) ==
    LET nx == cellOf(p)[1] + off[1]
        ny == cellOf(p)[2] + off[2]
    IN  IF wrap
        THEN <<foldCell(nx, Ceil(width, cellSize)), foldCell(ny, Ceil(height, cellSize))>>
        ELSE <<nx, ny>>

RECURSIVE gather(_, _, _)
gather(hash, p, k) ==
    IF k > Len(cellOffsets) THEN << >>
    ELSE LET key == neighborKey(p, cellOffsets[k])
         IN  (IF key \in DOMAIN hash THEN hash[key] ELSE << >>) \o gather(hash, p, k + 1)

getNeighbors(hash, p) == gather(hash, p, 1)

(***************************************************************************)
(* applyForces (lines 234-291).                                            *)
(***************************************************************************)
\* the folding of one axis of the separation under wrap (lines 254-257)
foldAxis(d, extent) ==
    LET d1 == IF 2 * d > extent THEN d - extent ELSE d
    IN  IF 2 * d1 < -extent THEN d1 + extent ELSE d1

\* the separation from p to other (lines 250-258)
separation(p, other) ==
    IF wrap
    THEN <<foldAxis(other.x - p.x, width), foldAxis(other.y - p.y, height)>>
    ELSE <<other.x - p.x, other.y - p.y>>

\* dist (lines 260-261)
distance(p, other) ==
    LET d == separation(p, other) IN Sqrt(d[1] * d[1] + d[2] * d[2])

\* the scalar force, were the matrix strength applied at every distance
forceAtByStrength(dist, strength) ==
    Div(Div(strength * (interactionRadius - dist), interactionRadius - minDist)
          * maxForce, MatrixScale)

\* the scalar force at distance dist > 0 for a matrix strength (lines 269-279)
forceAt(dist, strength) ==
    IF dist < minDist
    THEN Div((dist - minDist) * maxForce, minDist)
    ELSE Div(Div(strength * (interactionRadius - dist), interactionRadius - minDist)
               * maxForce, MatrixScale)

\* what one neighbour adds to <<fx, fy>> (lines 247-284)
pairForce(p, other) ==
    LET d    == separation(p, other)
        dist == distance(p, other)
    IN  IF dist < interactionRadius /\ dist > 0
        THEN LET force == forceAt(dist, rules.matrix[p.type][other.type])
             IN  <<Div(d[1] * force, dist), Div(d[2] * force, dist)>>
        ELSE <<0, 0>>

RECURSIVE sumForces(_, _, _, _)
\* the loop over neighbors from position k on (lines 244-285)
sumForces(ps, i, nbrs, k) ==
    IF k > Len(nbrs) THEN <<0, 0>>
    ELSE LET rest == sumForces(ps, i, nbrs, k + 1)
             f    == IF nbrs[k] = i THEN <<0, 0>> ELSE pairForce(ps[i], ps[nbrs[k]])
         IN  <<f[1] + rest[1], f[2] + rest[2]>>

\* <<fx, fy>> of particle i (lines 238-285)
forceOn(ps, hash, i) == sumForces(ps, i, getNeighbors(hash, ps[i]), 1)

\* one iteration of the update loop of animate (lines 398-400)
integrate(ps, i) == [ps EXCEPT ![i] = update(ps[i])]

\* accelerate, moving the particle as soon as its force is known
accelerateAndMove(ps, hash, i) ==
    LET f == forceOn(ps, hash, i)
    IN  integrate([ps EXCEPT ![i].vx = @ + f[1], ![i].vy = @ + f[2]], i)

\* one iteration of the outer loop of applyForces (lines 238-289)
accelerate(ps, hash, i) ==
    LET f == forceOn(ps, hash, i)
    IN  [ps EXCEPT ![i].vx = @ + f[1], ![i].vy = @ + f[2]]

(***************************************************************************)
(* Random draws and particle creation (lines 316-341).                     *)
(***************************************************************************)
\* Math.floor(Math.random() * numTypes)
randomType(k) == Floor(k * numTypes, RandDen)

\* Math.random() * extent
randomCoord(k, extent) == Floor(k * extent, RandDen)

\* the particles createParticles can push for a canvas of w by h (lines 321-324)
freshParticles(w, h) ==
    { Particle(randomCoord(kx, w), randomCoord(ky, h), randomType(kt)) :
      kx \in RandNumsX, ky \in RandNumsY, kt \in RandNums }

\* the arrays createParticles(count) can leave in particles
createParticles(count, w, h) == [1 .. count -> freshParticles(w, h)]

\* Math.random() * Math.PI * 2 is drawn among the quarter turns q * PI / 2
Quarters == {1, 2}

cosQuarter(q) == CASE q = 0 -> 1 [] q = 1 -> 0 [] q = 2 -> -1 [] q = 3 -> 0

sinQuarter(q) == CASE q = 0 -> 0 [] q = 1 -> 1 [] q = 2 -> 0 [] q = 3 -> -1

\* the particles spawnParticles can push around (x, y) (lines 332-337)
spawnedParticles(x, y) ==
    { Particle(x + cosQuarter(q) * Floor(kr * 30 * Unit, RandDen),
               y + sinQuarter(q) * Floor(kr * 30 * Unit, RandDen),
               randomType(kt)) :
      q \in Quarters, kr \in RandNums, kt \in RandNums }

(***************************************************************************)
(* What the environment can supply.                                        *)
(***************************************************************************)
\* window.innerWidth, window.innerHeight
WindowSizes == { <<250 * Unit, 160 * Unit>>, <<100 * Unit, 100 * Unit>> }

\* where the canvas is clicked
ClickPoints == { <<3 * Unit, 3 * Unit>> }

\* values of the speed slider
Speeds == { Unit, 2 * Unit }

\* values of the particle-count slider
Counts == 1 .. MaxCount

\* data-preset of the preset buttons
PresetButtons == TableNames \cup {"random"}

(***************************************************************************)
(* init (lines 629-648).                                                   *)
(***************************************************************************)
Init ==
    /\ \E size \in WindowSizes : width = size[1] /\ height = size[2]
    /\ rules \in generateRandomRules
    /\ particleCount \in Counts
    /\ particles \in createParticles(particleCount, width, height)
    /\ wrap = TRUE
    /\ paused = FALSE
    /\ speed = 1 * Unit
    /\ spatialHash = << >>
    /\ matrixInputs = << >>
    /\ pc = "idle"
    /\ idx = 0
    /\ frame = 0
    /\ thrown = "none"
    /\ snap = << >>
    /\ lastTick = "none"

(***************************************************************************)
(* animate (lines 380-405), one action per loop iteration.  Handlers run   *)
(* to completion: no other handler runs while pc # "idle".                 *)
(***************************************************************************)
\* the test guarding the physics step (line 392)
runsPhysicsAlways == TRUE

runsPhysics == ~paused

\* entry of animate; when running, buildSpatialHash at the top of applyForces
AnimateFrame ==
    /\ pc = "idle"
    /\ frame < MaxFrames
    /\ frame' = frame + 1
    /\ thrown' = "none"
    /\ IF ~runsPhysics \/ Len(particles) = 0
       THEN /\ lastTick' = (IF runsPhysics THEN "ran" ELSE "skipped")
            /\ UNCHANGED <<particles, spatialHash, pc, idx, snap>>
       ELSE /\ spatialHash' = buildSpatialHash(particles)
            /\ snap' = particles
            /\ pc' = "forces"
            /\ idx' = 1
            /\ lastTick' = "ran"
            /\ UNCHANGED particles
    /\ UNCHANGED <<rules, width, height, wrap, paused, speed, particleCount,
                   matrixInputs>>

\* one iteration of the loop of applyForces
ForceStep ==
    /\ pc = "forces"
    /\ particles' = accelerate(particles, spatialHash, idx)
    /\ IF idx < Len(particles)
       THEN idx' = idx + 1 /\ pc' = "forces"
       ELSE idx' = 1 /\ pc' = "update"
    /\ UNCHANGED <<rules, width, height, wrap, paused, speed, particleCount,
                   spatialHash, matrixInputs, frame, thrown, snap, lastTick>>

\* one iteration of the update loop; draw() after the last one changes no state
UpdateStep ==
    /\ pc = "update"
    /\ particles' = integrate(particles, idx)
    /\ IF idx < Len(particles)
       THEN idx' = idx + 1 /\ pc' = "update" /\ UNCHANGED <<spatialHash, snap>>
       ELSE idx' = 0 /\ pc' = "idle" /\ spatialHash' = << >> /\ snap' = << >>
    /\ UNCHANGED <<rules, width, height, wrap, paused, speed, particleCount,
                   matrixInputs, frame, thrown, lastTick>>

(***************************************************************************)
(* Event listeners (lines 511-623).  A keyboard shortcut runs the same     *)
(* code as its button.                                                     *)
(***************************************************************************)
\* play-pause click, space key (lines 513-516, 583-587)
PlayPause ==
    /\ pc = "idle"
    /\ paused' = ~paused
    /\ thrown' = "none"
    /\ UNCHANGED <<particles, rules, width, height, wrap, speed, particleCount,
                   spatialHash, matrixInputs, pc, idx, frame, snap, lastTick>>

\* reset, were createParticles to push onto the array it finds
resetAppending ==
    /\ pc = "idle"
    /\ Len(particles) + particleCount <= MaxParticles + MaxCount
    /\ \E fresh \in createParticles(particleCount, width, height) :
          particles' = particles \o fresh
    /\ thrown' = "none"
    /\ UNCHANGED <<rules, width, height, wrap, paused, speed, particleCount,
                   spatialHash, matrixInputs, pc, idx, frame, snap, lastTick>>

\* reset (lines 493-496): reset click, r key
reset ==
    /\ pc = "idle"
    /\ particles' \in createParticles(particleCount, width, height)
    /\ thrown' = "none"
    /\ UNCHANGED <<rules, width, height, wrap, paused, speed, particleCount,
                   spatialHash, matrixInputs, pc, idx, frame, snap, lastTick>>

\* properties every object inherits from Object.prototype that are functions:
\* PRESETS[name]() returns a value without a matrix property
InheritedNames == {"constructor", "toString"}

\* names PRESETS does not have at all: PRESETS[name] is undefined
AbsentNames == {"galaxy", ""}

\* setPreset (lines 483-491): rules = PRESETS[name]()
setPreset(name) ==
    /\ pc = "idle"
    /\ IF name = "random"
       THEN rules' \in generateRandomRules /\ thrown' = "none"
       ELSE IF name \in TableNames
       THEN rules' = presetRules(name) /\ thrown' = "none"
       ELSE IF name \in InheritedNames
       THEN rules' = [matrix |-> << >>] /\ thrown' = "none"
       ELSE rules' = rules /\ thrown' = "TypeError"
    /\ UNCHANGED <<particles, width, height, wrap, paused, speed, particleCount,
                   spatialHash, matrixInputs, pc, idx, frame, snap, lastTick>>

\* a preset button's click (lines 525-529)
PresetClick == \E name \in PresetButtons : setPreset(name)

\* setPreset called with any name
SetPresetCall ==
    \E name \in PresetButtons \cup InheritedNames \cup AbsentNames : setPreset(name)

\* randomize (lines 498-501): randomize click, n key
randomize ==
    /\ pc = "idle"
    /\ rules' \in generateRandomRules
    /\ particles' \in createParticles(particleCount, width, height)
    /\ thrown' = "none"
    /\ UNCHANGED <<width, height, wrap, paused, speed, particleCount,
                   spatialHash, matrixInputs, pc, idx, frame, snap, lastTick>>

\* particle-count slider, input event (lines 534-538)
ParticleCountInput ==
    /\ pc = "idle"
    /\ particleCount' \in Counts
    /\ thrown' = "none"
    /\ UNCHANGED <<particles, rules, width, height, wrap, paused, speed,
                   spatialHash, matrixInputs, pc, idx, frame, snap, lastTick>>

\* speed slider (lines 547-550)
SpeedInput ==
    /\ pc = "idle"
    /\ speed' \in Speeds
    /\ thrown' = "none"
    /\ UNCHANGED <<particles, rules, width, height, wrap, paused, particleCount,
                   spatialHash, matrixInputs, pc, idx, frame, snap, lastTick>>

\* wrap checkbox (lines 559-561)
WrapChange ==
    /\ pc = "idle"
    /\ wrap' \in BOOLEAN
    /\ thrown' = "none"
    /\ UNCHANGED <<particles, rules, width, height, paused, speed, particleCount,
                   spatialHash, matrixInputs, pc, idx, frame, snap, lastTick>>

\* canvas click (lines 611-616): spawnParticles appends to the array
CanvasClick ==
    /\ pc = "idle"
    /\ Len(particles) + SpawnCount <= MaxParticles
    /\ \E at \in ClickPoints :
         \E added \in [1 .. SpawnCount -> spawnedParticles(at[1], at[2])] :
            particles' = particles \o added
    /\ thrown' = "none"
    /\ UNCHANGED <<rules, width, height, wrap, paused, speed, particleCount,
                   spatialHash, matrixInputs, pc, idx, frame, snap, lastTick>>

\* window resize (lines 619-622)
Resize ==
    /\ pc = "idle"
    /\ \E size \in WindowSizes : width' = size[1] /\ height' = size[2]
    /\ thrown' = "none"
    /\ UNCHANGED <<particles, rules, wrap, paused, speed, particleCount,
                   spatialHash, matrixInputs, pc, idx, frame, snap, lastTick>>

(***************************************************************************)
(* The matrix editor (lines 430-481, 564-573).                             *)
(***************************************************************************)
\* value.toFixed(2): rounded to two decimals, halves away from zero
toFixed2(v) ==
    LET h == MatrixScale \div 100
    IN  IF v < 0 THEN -(((2 * (-v) + h) \div (2 * h)) * h)
        ELSE ((2 * v + h) \div (2 * h)) * h

\* the text of an input: <<v>> reads as the number v, << >> as no number
\* parseFloat(text) || 0 (line 470)
parseFloatOr0(text) == IF text = << >> THEN 0 ELSE text[1]

\* the stored value, were it not clamped
clampNothing(v) == v

\* Math.max(-1, Math.min(1, v)) (line 470)
clamp(v) == Max(-MatrixScale, Min(MatrixScale, v))

\* the inputs buildMatrixUI creates (lines 443-451)
buildMatrixUI(r) == [i \in Types |-> [j \in Types |-> <<toFixed2(r.matrix[i][j])>>]]

\* rules after applyMatrixFromUI (lines 465-472)
applyMatrixFromUI ==
    [rules EXCEPT !.matrix =
        [i \in Types |-> [j \in Types |-> clamp(parseFloatOr0(matrixInputs[i][j]))]]]

modalOpen == DOMAIN matrixInputs # {}

\* the cells the user edits, and what is typed into them
EditCells == { <<0, 0>> }

TypedTexts == { <<5 * MatrixScale>>, <<-5 * MatrixScale>>, << >> }

\* show-matrix click, m key (lines 474-477)
showMatrix ==
    /\ pc = "idle"
    /\ matrixInputs' = buildMatrixUI(rules)
    /\ thrown' = "none"
    /\ UNCHANGED <<particles, rules, width, height, wrap, paused, speed,
                   particleCount, spatialHash, pc, idx, frame, snap, lastTick>>

\* close-matrix click, escape key (lines 479-481)
hideMatrix ==
    /\ pc = "idle"
    /\ matrixInputs' = << >>
    /\ thrown' = "none"
    /\ UNCHANGED <<particles, rules, width, height, wrap, paused, speed,
                   particleCount, spatialHash, pc, idx, frame, snap, lastTick>>

\* the user types into an input; its listener only restyles it (lines 457-462)
TypeInput ==
    /\ pc = "idle"
    /\ modalOpen
    /\ \E cell \in EditCells : \E text \in TypedTexts :
          matrixInputs' = [matrixInputs EXCEPT ![cell[1]][cell[2]] = text]
    /\ thrown' = "none"
    /\ UNCHANGED <<particles, rules, width, height, wrap, paused, speed,
                   particleCount, spatialHash, pc, idx, frame, snap, lastTick>>

\* apply-matrix click (lines 566-569): applyMatrixFromUI, then hideMatrix
ApplyMatrixClick ==
    /\ pc = "idle"
    /\ modalOpen
    /\ rules' = applyMatrixFromUI
    /\ matrixInputs' = << >>
    /\ thrown' = "none"
    /\ UNCHANGED <<particles, width, height, wrap, paused, speed,
                   particleCount, spatialHash, pc, idx, frame, snap, lastTick>>

\* randomize-matrix click (lines 570-573)
RandomizeMatrixClick ==
    /\ pc = "idle"
    /\ modalOpen
    /\ rules' \in generateRandomRules
    /\ matrixInputs' = buildMatrixUI(rules')
    /\ thrown' = "none"
    /\ UNCHANGED <<particles, width, height, wrap, paused, speed,
                   particleCount, spatialHash, pc, idx, frame, snap, lastTick>>

(***************************************************************************)
(* The simulation as its page drives it.                                   *)
(***************************************************************************)
Next ==
    \/ AnimateFrame
    \/ ForceStep
    \/ UpdateStep
    \/ PlayPause
    \/ reset
    \/ ParticleCountInput
    \/ WrapChange
    \/ CanvasClick
    \/ Resize

Spec == Init /\ [][Next]_vars

(***************************************************************************)
(* The handlers that write the rules: the presets, randomize and the       *)
(* matrix editor, from a page loaded with one particle in the larger       *)
(* window.                                                                 *)
(***************************************************************************)
InitMatrix == Init /\ particleCount = 1 /\ width = 250 * Unit

NextMatrix ==
    \/ PresetClick
    \/ randomize
    \/ showMatrix
    \/ hideMatrix
    \/ TypeInput
    \/ ApplyMatrixClick
    \/ RandomizeMatrixClick

SpecMatrix == InitMatrix /\ [][NextMatrix]_vars

(***************************************************************************)
(* setPreset as a function of its argument: called with any name.          *)
(***************************************************************************)
SpecPreset == Init /\ [][SetPresetCall]_vars

(***************************************************************************)
(* The force law and one frame as functions of their inputs: two particles *)
(* at rest, the second at a chosen offset from the first (folded into the  *)
(* canvas), under a matrix whose cells all hold one chosen strength; the    *)
(* speed slider moves between frames.                                      *)
(***************************************************************************)
\* where the first particle is, in pixels
FirstAt == { <<100, 80>>, <<245, 80>>, <<2, 2>>, <<245, 155>> }

\* the offset of the second particle, in tenths of a pixel
OffsetsX == {-90, -30, 0, 30, 60, 99, 100, 300, 799, 800}
OffsetsY == {0, 40, 80}

Strengths == {-MatrixScale, -(MatrixScale \div 2), 0, MatrixScale \div 2, MatrixScale}

uniformRules(s) == [matrix |-> [i \in Types |-> [j \in Types |-> s]]]

InitForce ==
    /\ width = 250 * Unit /\ height = 160 * Unit
    /\ \E s \in Strengths : rules = uniformRules(s)
    /\ particleCount = 2
    /\ \E at \in FirstAt, ox \in OffsetsX, oy \in OffsetsY, t \in {0, 5} :
          particles =
            << Particle(at[1] * Unit, at[2] * Unit, 0),
               Particle((at[1] * Unit + Div(ox * Unit, 10)) % width,
                        (at[2] * Unit + Div(oy * Unit, 10)) % height, t) >>
    /\ wrap \in BOOLEAN
    /\ paused = FALSE
    /\ speed = 1 * Unit
    /\ spatialHash = << >>
    /\ matrixInputs = << >>
    /\ pc = "idle"
    /\ idx = 0
    /\ frame = 0
    /\ thrown = "none"
    /\ snap = << >>
    /\ lastTick = "none"

NextForce ==
    \/ AnimateFrame
    \/ ForceStep
    \/ UpdateStep
    \/ SpeedInput

SpecForce == InitForce /\ [][NextForce]_vars

(***************************************************************************)
(* Properties.                                                             *)
(***************************************************************************)
InSeq(x, s) == \E k \in 1 .. Len(s) : s[k] = x

\* the neighbor list of particle i in the frame in progress
neighborsOf(i) == getNeighbors(spatialHash, particles[i])

\* what the entries of i's neighbor list that name j add to i's force
contribution(i, j) ==
    sumForces(particles, i, SelectSeq(neighborsOf(i), LAMBDA n : n = j), 1)

InDomain(p) == 0 <= p.x /\ p.x < width /\ 0 <= p.y /\ p.y < height

\* C1.  Neighbor superset: once buildSpatialHash has run, every other
\* particle Q closer to P than interactionRadius, the distance taken as the
\* force law takes it, is in getNeighbors(P); in wrap and in bounce mode and
\* for every canvas size.
C1_NeighborSuperset ==
    pc = "forces" =>
        \A i \in Indices(particles) : \A j \in Indices(particles) :
            (i # j /\ distance(particles[i], particles[j]) < interactionRadius)
                => InSeq(j, neighborsOf(i))

\* C2.  Wrap conservation: with wrap on, a particle that Particle.update has
\* just updated has x in [0, width) and y in [0, height), whatever handlers
\* ran before the frame.
C2_WrapConservation ==
    [][(pc = "update" /\ wrap) => InDomain(particles'[idx])]_vars

\* C3.  Paused is a physics no-op: a frame that starts while paused leaves
\* the particle array as it was, no step of a frame changes CONFIG.paused,
\* only the play/pause toggle changes it, and no physics step is in progress
\* while paused.
C3_PausedNoOp ==
    /\ [](paused => pc = "idle")
    /\ [][ /\ (paused /\ frame' # frame) => particles' = particles
           /\ (frame' # frame \/ pc # "idle") => paused' = paused
           /\ paused' # paused => PlayPause ]_vars

\* a frame was skipped while a particle was moving
C3_Witness ==
    /\ pc = "idle" /\ paused /\ lastTick = "skipped"
    /\ \E k \in Indices(particles) : particles[k].vx # 0

RECURSIVE accelerateInOrder(_, _, _, _)
\* applyForces on ps visiting the particles in the order given
accelerateInOrder(ps, hash, order, k) ==
    IF k > Len(order) THEN ps
    ELSE accelerateInOrder(accelerate(ps, hash, order[k]), hash, order, k + 1)

\* the orders in which n particles can be visited
VisitOrders(n) ==
    { o \in [1 .. n -> 1 .. n] : \A a, b \in 1 .. n : a # b => o[a] # o[b] }

\* particle k, with the force computed from the positions in snap added to
\* the velocity it had in snap
acceleratedFromSnap(k) ==
    LET f == forceOn(snap, buildSpatialHash(snap), k)
    IN  [snap[k] EXCEPT !.vx = @ + f[1], !.vy = @ + f[2]]

\* C4.  Snapshot ordering: while applyForces loops, no position differs from
\* the one the frame started with; a visited particle's velocity is its
\* starting velocity plus the force computed from the starting positions;
\* and when the loop ends the array is what any visiting order gives.
C4_SnapshotOrdering ==
    /\ pc = "forces" =>
         \A k \in Indices(particles) :
            particles[k] = IF k < idx THEN acceleratedFromSnap(k) ELSE snap[k]
    /\ (pc = "update" /\ idx = 1) =>
         /\ \A k \in Indices(particles) : particles[k] = acceleratedFromSnap(k)
         /\ \A o \in VisitOrders(Len(snap)) :
               particles = accelerateInOrder(snap, spatialHash, o, 1)

\* the force loop has ended with two particles accelerated
C4_Witness ==
    /\ pc = "update" /\ idx = 1 /\ Len(particles) >= 2
    /\ particles[1].vx # snap[1].vx
    /\ particles[2].vx # snap[2].vx

\* C5.  Force symmetry at equal type: two particles of a type i with
\* matrix[i][i] > 0, at a distance between minDist and interactionRadius,
\* get from each other contributions that are opposite, equal in size and
\* directed at the other particle, and one is in the other's neighbor list
\* exactly when the other is in its own.
C5_ForceSymmetry ==
    pc = "forces" =>
        \A i \in Indices(particles) : \A j \in Indices(particles) :
            LET p  == particles[i]
                q  == particles[j]
                d  == separation(p, q)
                fi == contribution(i, j)
                fj == contribution(j, i)
            IN  ( /\ i # j
                  /\ p.type = q.type
                  /\ rules.matrix[p.type][p.type] > 0
                  /\ minDist < distance(p, q)
                  /\ distance(p, q) < interactionRadius )
                => /\ fi[1] = -fj[1] /\ fi[2] = -fj[2]
                   /\ fi[1] * d[1] >= 0 /\ fi[2] * d[2] >= 0
                   /\ InSeq(j, neighborsOf(i)) <=> InSeq(i, neighborsOf(j))

\* the force the repulsion zone gives at distance dist
repulsionAt(dist) == Div((dist - minDist) * maxForce, minDist)

\* C6.  Repulsion floor: for a pair at a distance 0 < d < minDist the force
\* is (d / minDist - 1) * maxForce for every matrix strength, it is never
\* positive, and what the pair adds to the particle's force points away
\* from the other particle.
C6_RepulsionFloor ==
    pc = "forces" =>
        \A i \in Indices(particles) : \A j \in Indices(particles) :
            LET p    == particles[i]
                q    == particles[j]
                d    == separation(p, q)
                dist == distance(p, q)
                f    == pairForce(p, q)
                c    == contribution(i, j)
            IN  (i # j /\ 0 < dist /\ dist < minDist)
                => /\ \A s \in Strengths : forceAt(dist, s) = repulsionAt(dist)
                   /\ repulsionAt(dist) <= 0
                   /\ f[1] = Div(d[1] * repulsionAt(dist), dist)
                   /\ f[2] = Div(d[2] * repulsionAt(dist), dist)
                   /\ c[1] * d[1] <= 0 /\ c[2] * d[2] <= 0

\* a pair inside minDist under a positive strength, pushed apart
C6_Witness ==
    /\ pc = "forces" /\ Len(particles) = 2
    /\ 0 < distance(particles[1], particles[2])
    /\ distance(particles[1], particles[2]) < minDist
    /\ rules.matrix[particles[1].type][particles[2].type] > 0
    /\ contribution(1, 2)[1] * separation(particles[1], particles[2])[1] < 0

MatrixInRange ==
    \A i \in Types : \A j \in Types :
        -MatrixScale <= rules.matrix[i][j] /\ rules.matrix[i][j] <= MatrixScale

\* C7.  Matrix range invariant: after any sequence of preset selections,
\* randomizations and manual edits every cell is in [-1, 1]; applying an
\* input that reads above 1 stores 1, and one that reads below -1 stores -1.
C7_MatrixRange ==
    /\ []MatrixInRange
    /\ [][ApplyMatrixClick =>
            \A i \in Types : \A j \in Types :
               LET v == parseFloatOr0(matrixInputs[i][j])
               IN  /\ v > MatrixScale => rules'.matrix[i][j] = MatrixScale
                   /\ v < -MatrixScale => rules'.matrix[i][j] = -MatrixScale
                   /\ (-MatrixScale <= v /\ v <= MatrixScale)
                         => rules'.matrix[i][j] = v ]_vars

\* an edit of 5 was applied: no preset and no random draw stores 1
C7_Witness == ~modalOpen /\ rules.matrix[0][0] = MatrixScale

\* C9.  Unknown preset is rejected: setPreset with a name that is no preset
\* signals an error and leaves the rules as they were.
C9_UnknownPresetRejected ==
    [][\A name \in InheritedNames \cup AbsentNames :
          setPreset(name) => (thrown' # "none" /\ rules' = rules)]_vars

\* what reset promises of the array it leaves
ResetPost ==
    /\ Len(particles) = particleCount
    /\ \A k \in Indices(particles) :
          /\ particles[k].type \in Types
          /\ particles[k].vx = 0 /\ particles[k].vy = 0
          /\ InDomain(particles[k])

\* C8.  Reset postcondition: reset leaves exactly particleCount particles,
\* each of a type in [0, numTypes), at rest and inside the canvas, whatever
\* the array held before.
C8_ResetPostcondition == [][reset => ResetPost']_vars

\* after a physics step, the array is a reset's: at rest, of the configured
\* size, with two particles close enough to have been accelerated
C8_Witness ==
    /\ pc = "idle" /\ lastTick = "ran" /\ ResetPost
    /\ \E i \in Indices(particles) : \E j \in Indices(particles) :
          i # j /\ pairForce(particles[i], particles[j]) # <<0, 0>>

\* C10.  Self-candidacy: once buildSpatialHash has run, every particle's own
\* index is in its neighbor list, in wrap and in bounce mode and wherever the
\* particle is.
C10_SelfCandidacy ==
    pc = "forces" => \A i \in Indices(particles) : InSeq(i, neighborsOf(i))


\* the position Particle.update integrates to on one axis, before the
\* boundary handling
advanced(x, v) == x + Div(v * dt * speed, Unit)

\* what the bounce policy promises on one axis: from position x and
\* velocity v to position x2 and velocity v2
BounceAxisPost(x, v, extent, x2, v2) ==
    LET x1 == advanced(x, v)
    IN  /\ x1 < 0 => (x2 = 0 /\ v2 = Div(-(damp(v) * 8), 10))
        /\ x1 >= extent => (x2 = extent - Unit /\ v2 = Div(-(damp(v) * 8), 10))
        /\ (0 <= x1 /\ x1 < extent) => (x2 = x1 /\ v2 = damp(v))

\* C11.  Bounce policy: with wrap off, Particle.update leaves the particle
\* with x in [0, width - 1] and y in [0, height - 1]; an axis that left
\* [0, extent) has its damped velocity multiplied by -0.8 and its position
\* clamped to 0 or extent - 1; an axis that stayed inside is left alone.
C11_BouncePolicy ==
    [][(pc = "update" /\ ~wrap) =>
         LET p == particles[idx]
             q == particles'[idx]
         IN  /\ 0 <= q.x /\ q.x <= width - Unit
             /\ 0 <= q.y /\ q.y <= height - Unit
             /\ BounceAxisPost(p.x, p.vx, width, q.x, q.vx)
             /\ BounceAxisPost(p.y, p.vy, height, q.y, q.vy) ]_vars

\* C11, amended.  As C11, with x in [0, width) and y in [0, height): a
\* position that integrates to the last pixel, between extent - 1 and
\* extent, is inside and stays where it is.
C11_BouncePolicyAmended ==
    [][(pc = "update" /\ ~wrap) =>
         LET p == particles[idx]
             q == particles'[idx]
         IN  /\ 0 <= q.x /\ q.x < width
             /\ 0 <= q.y /\ q.y < height
             /\ BounceAxisPost(p.x, p.vx, width, q.x, q.vx)
             /\ BounceAxisPost(p.y, p.vy, height, q.y, q.vy) ]_vars

\* a frame has bounced a particle off the high end of x: it sits on
\* width - 1, moving back
C11_Witness ==
    /\ ~wrap /\ lastTick = "ran" /\ pc = "idle"
    /\ \E k \in Indices(particles) :
          particles[k].x = width - Unit /\ particles[k].vx < 0

\* the boundary handling of one axis in the current mode:
\* <<position, velocity>>
boundaryAxis(x, v, extent) ==
    IF wrap THEN <<wrapAxis(x, extent), v>> ELSE bounceAxis(x, v, extent)

\* C12.  Integration order: the particle a frame updates ends where its
\* starting position, advanced by (starting velocity + accumulated force)
\* * dt * speed, is taken by the boundary handling, and with that same sum
\* multiplied by (1 - friction * dt) as its velocity: the force enters the
\* velocity first, the position moves with the undamped velocity, the
\* damping comes last.
C12_IntegrationOrder ==
    [][pc = "update" =>
         LET s  == snap[idx]
             f  == forceOn(snap, buildSpatialHash(snap), idx)
             vx == s.vx + f[1]
             vy == s.vy + f[2]
             bx == boundaryAxis(s.x + Div(vx * dt * speed, Unit), damp(vx), width)
             by == boundaryAxis(s.y + Div(vy * dt * speed, Unit), damp(vy), height)
             q  == particles'[idx]
         IN  /\ particles[idx].vx = vx /\ particles[idx].vy = vy
             /\ q.x = bx[1] /\ q.vx = bx[2]
             /\ q.y = by[1] /\ q.vy = by[2] ]_vars

\* a second frame is being integrated: the particle came in with a damped
\* velocity and this frame's force has been added to it
C12_Witness ==
    /\ pc = "update" /\ frame = 2
    /\ \E k \in Indices(particles) :
          /\ k < idx
          /\ snap[k].vx # 0
          /\ particles[k].x # snap[k].x

\* how many entries of the sequence s are x
Occurrences(x, s) == Cardinality({k \in 1 .. Len(s) : s[k] = x})

\* C13.  No double counting: once buildSpatialHash has run, the list
\* getNeighbors returns for a particle holds every index at most once, so
\* the force loop adds each other particle's force at most once; in wrap
\* mode too, whatever the canvas size.
C13_NoDoubleCounting ==
    pc = "forces" =>
        \A i \in Indices(particles) : \A j \in Indices(particles) :
            /\ Occurrences(j, neighborsOf(i)) <= 1
            /\ i # j => contribution(i, j) = IF InSeq(j, neighborsOf(i))
                                              THEN pairForce(particles[i], particles[j])
                                              ELSE <<0, 0>>

=============================================================================
